---- MODULE Spec2Model ----
(***************************************************************************)
(* Model of the pull-request review bot: the diff-position tracker of      *)
(* your_bot_module.py, the entry script pr_review.py that drives it, and   *)
(* the reviewer gate of the two LLM entry scripts.                         *)
(*                                                                         *)
(* A patch is a string, modelled as a sequence of one-character strings.   *)
(* An issue-comment body is modelled as a sequence of lexical tokens (the  *)
(* sentinel text, "\n", " ", the JSON punctuation, quoted strings, numbers *)
(* and "-->"), so that split('\n', 1), json.dumps and json.loads are       *)
(* computed on what the code reads and writes.                             *)
(***************************************************************************)
EXTENDS Integers, Sequences, FiniteSets, TLC

VARIABLES
    files,       \* pr.get_files(): sequence of file records
    cache,       \* the cache handed to generate_review_comments
    comments,    \* the comment list the last call returned
    new_cache,   \* the cache the last call returned
    firstComments, \* the comment list of the call before the last one
    phase,       \* position of the driver of the pure-function specifications
    issueComments, \* pr.get_issue_comments(): bodies in creation order
    loaded,      \* what get_cached_reviewed_lines returned last
    raised,      \* the exception that escaped the last call, "none" if none
    saved,       \* the cache last handed to post_metadata_comment
    reviewers,   \* logins of pr.get_review_requests()[0]
    reviews,     \* the reviews created on the PR: their inline comments
    script,      \* the entry script of the current (or last) run
    pc,          \* the statement the run stands before, "idle" between runs
    exitCode,    \* exit code of the last run, -1 before the first one ends
    outcome,     \* how the last run ended
    calls,       \* calls made by the current (or last) run, by kind
    runs,        \* number of runs started
    foreign,     \* some sentinel comment was not posted by the bot
    everLoaded,  \* positions per filename that earlier runs loaded
    seenAdded,   \* positions of added lines per filename that runs have seen
    cleanRuns,   \* completed error-free runs since the files last changed
    envStage,    \* how far the host's changes between two runs have got
    environ,     \* os.environ of the job: the variables the scripts read
    fileIdx,     \* files the loop over pr_files has handled
    response_text, \* the model's answer to the request for the final review
    aiReview     \* what get_final_review returned

genVars == <<files, cache, comments, new_cache, firstComments>>
loadVars == <<issueComments, loaded, raised, saved>>
botVars == <<environ, fileIdx, response_text, aiReview>>
runVars == <<reviewers, reviews, script, pc, exitCode, outcome, calls, runs,
             foreign, everLoaded, seenAdded, cleanRuns, envStage, botVars>>
vars == <<genVars, loadVars, runVars, phase>>

----------------------------------------------------------------------------
\* Bounds of the model.

\* Total number of patch characters over the files of one PR.
MaxPatchChars == 3
\* Largest position a cache handed in from outside may hold.
MaxCachePos == 2
\* Total number of positions a cache handed in from outside may hold.
MaxCacheEntries == 2

Filenames == {"a.py", "b.py"}
\* "+" , any other character, and the line separator.
Chars == {"+", "x", "\n"}
Statuses == {"modified", "removed"}

----------------------------------------------------------------------------
\* Strings.

\* str.startswith(prefix)
StartsWith(s, prefix) ==
    /\ Len(s) >= Len(prefix)
    /\ SubSeq(s, 1, Len(prefix)) = prefix

RECURSIVE IndexOf(_, _, _)
\* Index of the first element of s equal to c at or after i, 0 when none.
IndexOf(s, c, i) ==
    IF i > Len(s) THEN 0
    ELSE IF s[i] = c THEN i
    ELSE IndexOf(s, c, i + 1)

RECURSIVE Split(_, _)
\* str.split(sep): n separators give n + 1 parts, "" gives [""].
Split(s, sep) ==
    LET i == IndexOf(s, sep, 1) IN
    IF i = 0 THEN <<s>>
    ELSE <<SubSeq(s, 1, i - 1)>> \o Split(SubSeq(s, i + 1, Len(s)), sep)

\* Elements of a list, as set(list) builds it.
ToSet(s) == {s[i] : i \in DOMAIN s}

\* Mutant: the entry starts empty instead of as a copy of the set.
SetToList_Nothing(S) == <<>>

RECURSIVE SetToList(_)
\* list(set_of_small_ints): CPython iterates a set of small non-negative
\* integers in ascending order.
SetToList(S) ==
    IF S = {} THEN <<>>
    ELSE LET m == CHOOSE x \in S : \A y \in S : x <= y
         IN <<m>> \o SetToList(S \ {m})

\* dict.get(key, default)
DictGet(d, key, default) == IF key \in DOMAIN d THEN d[key] ELSE default

\* d[key] = value on a dict
DictSet(d, key, value) ==
    [k \in DOMAIN d \cup {key} |-> IF k = key THEN value ELSE d[k]]

EmptyDict == [k \in {} |-> <<>>]

----------------------------------------------------------------------------
\* your_bot_module.generate_review_comments

ReviewBody == "Review suggestion by dhp-pr-review-bot: Consider reviewing this line."

\* Mutant: the guard against the "+++" header line is left out.
IsAddedLine_NoHeaderGuard(line) == StartsWith(line, <<"+">>)

\* Mutant: every line of the patch counts as an added line.
IsAddedLine_EveryLine(line) == TRUE

\* line.startswith("+") and not line.startswith("++")
IsAddedLine(line) ==
    StartsWith(line, <<"+">>) /\ ~StartsWith(line, <<"+", "+">>)

\* Mutant: the status of the file is not looked at.
IsSkipped_IgnoresStatus(file) == ~file.hasPatch \/ file.patch = <<>>

\* not file.patch or file.status == 'removed'
IsSkipped(file) ==
    \/ ~file.hasPatch
    \/ file.patch = <<>>
    \/ file.status = "removed"

RECURSIVE ScanLines_NoRecord(_, _, _, _, _, _)
\* Mutant: a commented position is not appended to the file's cache entry.
ScanLines_NoRecord(patch_lines, position, reviewed_positions, filename, cs, entry) ==
    IF patch_lines = <<>> THEN [comments |-> cs, entry |-> entry]
    ELSE
        LET line == Head(patch_lines)
            pos == position + 1
        IN IF IsAddedLine(line) /\ pos \notin reviewed_positions
           THEN ScanLines_NoRecord(Tail(patch_lines), pos, reviewed_positions,
                                   filename,
                                   Append(cs, [path |-> filename, position |-> pos,
                                               body |-> ReviewBody]),
                                   entry)
           ELSE ScanLines_NoRecord(Tail(patch_lines), pos, reviewed_positions,
                                   filename, cs, entry)

RECURSIVE ScanLines(_, _, _, _, _, _)
\* The inner loop over patch_lines: position counts every line.
ScanLines(patch_lines, position, reviewed_positions, filename, cs, entry) ==
    IF patch_lines = <<>> THEN [comments |-> cs, entry |-> entry]
    ELSE
        LET line == Head(patch_lines)
            pos == position + 1
        IN IF IsAddedLine(line) /\ pos \notin reviewed_positions
           THEN ScanLines(Tail(patch_lines), pos, reviewed_positions, filename,
                          Append(cs, [path |-> filename, position |-> pos,
                                      body |-> ReviewBody]),
                          Append(entry, pos))
           ELSE ScanLines(Tail(patch_lines), pos, reviewed_positions, filename,
                          cs, entry)

RECURSIVE ScanFiles(_, _, _, _)
\* The outer loop over pr.get_files().
ScanFiles(fs, c, cs, nc) ==
    IF fs = <<>> THEN [comments |-> cs, new_cache |-> nc]
    ELSE
        LET file == Head(fs) IN
        IF IsSkipped(file) THEN ScanFiles(Tail(fs), c, cs, nc)
        ELSE
            LET filename == file.filename
                reviewed_positions == ToSet(DictGet(c, filename, <<>>))
                r == ScanLines(Split(file.patch, "\n"), 0, reviewed_positions,
                               filename, cs, SetToList(reviewed_positions))
            IN ScanFiles(Tail(fs), c, r.comments,
                         DictSet(nc, filename, r.entry))

generate_review_comments(fs, c) == ScanFiles(fs, c, <<>>, EmptyDict)

----------------------------------------------------------------------------
\* Comment bodies as token sequences, json.dumps and json.loads.

\* A punctuation, digit or text token, and a quoted-string token.
P(x) == [k |-> "p", s |-> x]
Str(x) == [k |-> "str", s |-> x]

SENTINEL == "<!-- dhp-pr-review-bot-meta"

Digits == <<"0", "1", "2", "3", "4", "5", "6", "7", "8", "9">>
IsDigit(t) == t.k = "p" /\ \E d \in DOMAIN Digits : Digits[d] = t.s
DigitVal(t) == (CHOOSE d \in DOMAIN Digits : Digits[d] = t.s) - 1

RECURSIVE IntTokens(_)
\* The decimal digits of a non-negative int, as json.dumps writes it.
IntTokens(n) ==
    IF n < 10 THEN <<P(Digits[n + 1])>>
    ELSE IntTokens(n \div 10) \o <<P(Digits[(n % 10) + 1])>>

RECURSIVE Indent(_)
Indent(n) == IF n = 0 THEN <<>> ELSE <<P(" ")>> \o Indent(n - 1)

\* The order in which the keys of a cache are written.
FilenameOrder == <<"a.py", "b.py">>
KeyList(d) == SelectSeq(FilenameOrder, LAMBDA f : f \in DOMAIN d)

RECURSIVE DumpItems(_, _)
\* The items of a non-empty list at indentation n, one per line.
DumpItems(l, n) ==
    <<P("\n")>> \o Indent(n) \o IntTokens(Head(l))
    \o (IF Len(l) = 1 THEN <<>> ELSE <<P(",")>> \o DumpItems(Tail(l), n))

\* json.dumps(list_of_ints, indent=2) at nesting level lvl
DumpList(l, lvl) ==
    IF l = <<>> THEN <<P("["), P("]")>>
    ELSE <<P("[")>> \o DumpItems(l, 2 * (lvl + 1))
         \o <<P("\n")>> \o Indent(2 * lvl) \o <<P("]")>>

RECURSIVE DumpMembers(_, _, _)
DumpMembers(d, keys, lvl) ==
    <<P("\n")>> \o Indent(2 * (lvl + 1))
    \o <<Str(Head(keys)), P(":"), P(" ")>> \o DumpList(d[Head(keys)], lvl + 1)
    \o (IF Len(keys) = 1 THEN <<>>
        ELSE <<P(",")>> \o DumpMembers(d, Tail(keys), lvl))

\* json.dumps(dict_of_lists, indent=2) at nesting level lvl
DumpDict(d, lvl) ==
    IF DOMAIN d = {} THEN <<P("{"), P("}")>>
    ELSE <<P("{")>> \o DumpMembers(d, KeyList(d), lvl)
         \o <<P("\n")>> \o Indent(2 * lvl) \o <<P("}")>>

\* json.dumps({"reviewed": d}, indent=2)
json_dumps(d) ==
    <<P("{"), P("\n")>> \o Indent(2)
    \o <<Str("reviewed"), P(":"), P(" ")>> \o DumpDict(d, 1)
    \o <<P("\n"), P("}")>>

\* Decoded JSON values, tagged by type.
JNum(n) == [t |-> "num", v |-> n]
JStr(x) == [t |-> "str", v |-> x]
JArr(l) == [t |-> "arr", v |-> l]
JObj(d) == [t |-> "obj", v |-> d]
JNull == [t |-> "null", v |-> 0]

IsWs(t) == t = P(" ") \/ t = P("\n")

RECURSIVE SkipWs(_, _)
SkipWs(ts, i) == IF i <= Len(ts) /\ IsWs(ts[i]) THEN SkipWs(ts, i + 1) ELSE i

ParseFail == [ok |-> FALSE, val |-> JNull, next |-> 0]
ParseOk(v, n) == [ok |-> TRUE, val |-> v, next |-> n]

RECURSIVE ParseDigits(_, _, _)
ParseDigits(ts, i, acc) ==
    IF i <= Len(ts) /\ IsDigit(ts[i])
    THEN ParseDigits(ts, i + 1, 10 * acc + DigitVal(ts[i]))
    ELSE ParseOk(JNum(acc), i)

\* A number: 0, or a non-zero digit followed by digits.
ParseNumber(ts, i) ==
    IF ts[i] = P("0") THEN ParseOk(JNum(0), i + 1)
    ELSE ParseDigits(ts, i, 0)

RECURSIVE ParseValue(_, _)
RECURSIVE ParseMembers(_, _, _)
RECURSIVE ParseElements(_, _, _)

\* A JSON value starting at token i (whitespace already skipped).
ParseValue(ts, i) ==
    IF i > Len(ts) THEN ParseFail
    ELSE IF ts[i].k = "str" THEN ParseOk(JStr(ts[i].s), i + 1)
    ELSE IF IsDigit(ts[i]) THEN ParseNumber(ts, i)
    ELSE IF ts[i] = P("null") THEN ParseOk(JNull, i + 1)
    ELSE IF ts[i] = P("{") THEN
        LET j == SkipWs(ts, i + 1) IN
        IF j <= Len(ts) /\ ts[j] = P("}") THEN ParseOk(JObj(EmptyDict), j + 1)
        ELSE ParseMembers(ts, j, EmptyDict)
    ELSE IF ts[i] = P("[") THEN
        LET j == SkipWs(ts, i + 1) IN
        IF j <= Len(ts) /\ ts[j] = P("]") THEN ParseOk(JArr(<<>>), j + 1)
        ELSE ParseElements(ts, j, <<>>)
    ELSE ParseFail

\* The members of an object, token i being where a key must stand.
ParseMembers(ts, i, acc) ==
    IF i > Len(ts) \/ ts[i].k # "str" THEN ParseFail
    ELSE
        LET c == SkipWs(ts, i + 1) IN
        IF c > Len(ts) \/ ts[c] # P(":") THEN ParseFail
        ELSE
            LET r == ParseValue(ts, SkipWs(ts, c + 1)) IN
            IF ~r.ok THEN ParseFail
            ELSE
                LET acc2 == DictSet(acc, ts[i].s, r.val)
                    e == SkipWs(ts, r.next)
                IN IF e > Len(ts) THEN ParseFail
                   ELSE IF ts[e] = P("}") THEN ParseOk(JObj(acc2), e + 1)
                   ELSE IF ts[e] = P(",")
                        THEN ParseMembers(ts, SkipWs(ts, e + 1), acc2)
                   ELSE ParseFail

\* The elements of an array, token i being where a value must stand.
ParseElements(ts, i, acc) ==
    LET r == ParseValue(ts, i) IN
    IF ~r.ok THEN ParseFail
    ELSE
        LET acc2 == Append(acc, r.val)
            e == SkipWs(ts, r.next)
        IN IF e > Len(ts) THEN ParseFail
           ELSE IF ts[e] = P("]") THEN ParseOk(JArr(acc2), e + 1)
           ELSE IF ts[e] = P(",")
                THEN ParseElements(ts, SkipWs(ts, e + 1), acc2)
           ELSE ParseFail

\* json.loads(s): one value between optional whitespace, nothing after it
\* ("Extra data" otherwise).
WholeDocument(ts, r) ==
    IF ~r.ok THEN ParseFail
    ELSE IF SkipWs(ts, r.next) <= Len(ts) THEN ParseFail
    ELSE r

json_loads(ts) == WholeDocument(ts, ParseValue(ts, SkipWs(ts, 1)))

----------------------------------------------------------------------------
\* your_bot_module.get_cached_reviewed_lines and post_metadata_comment

\* Mutant: the clause catches the JSON decoding error only.
ExceptException_JsonOnly(e) == e = "JSONDecodeError"

\* The exceptions the clause "except Exception" catches.
ExceptException(e) == e \in {"IndexError", "JSONDecodeError", "AttributeError"}

\* meta.get("reviewed", {}) on the outcome of json.loads.
MetaGet(meta) ==
    IF ~meta.ok THEN [exc |-> "JSONDecodeError", val |-> JNull]
    ELSE IF meta.val.t # "obj" THEN [exc |-> "AttributeError", val |-> JNull]
    ELSE [exc |-> "none",
          val |-> IF "reviewed" \in DOMAIN meta.val.v
                  THEN meta.val.v["reviewed"]
                  ELSE JObj(EmptyDict)]

\* comment.body.split('\n', 1)[1], nl being the index of the first newline.
AfterFirstNewline(body, nl) ==
    IF nl = 0 THEN [exc |-> "IndexError", val |-> JNull]
    ELSE MetaGet(json_loads(SubSeq(body, nl + 1, Len(body))))

\* The body of the try block on one sentinel comment: its outcome is a
\* returned value or the exception raised.
TryDecode(body) == AfterFirstNewline(body, IndexOf(body, P("\n"), 1))

RECURSIVE ScanComments(_, _)
\* Mutant: a sentinel comment that decodes is passed over when a later
\* comment exists.
TryExcept_LaterCommentFirst(cs, i, r) ==
    IF i < Len(cs) THEN ScanComments(cs, i + 1)
    ELSE IF r.exc = "none" THEN r
    ELSE IF ExceptException(r.exc) THEN ScanComments(cs, i + 1)
    ELSE r

\* One sentinel comment, r being the outcome of its try block: return,
\* continue with the next comment, or let the exception through.
TryExcept(cs, i, r) ==
    IF r.exc = "none" THEN r
    ELSE IF ExceptException(r.exc) THEN ScanComments(cs, i + 1)
    ELSE r

\* The loop over pr.get_issue_comments(), from comment i on.
ScanComments(cs, i) ==
    IF i > Len(cs) THEN [exc |-> "none", val |-> JObj(EmptyDict)]
    ELSE IF StartsWith(cs[i], <<P(SENTINEL)>>)
         THEN TryExcept(cs, i, TryDecode(cs[i]))
    ELSE ScanComments(cs, i + 1)

\* A decoded value that is a mapping from names to lists of numbers.
IsCacheShaped(j) ==
    /\ j.t = "obj"
    /\ \A f \in DOMAIN j.v :
        /\ j.v[f].t = "arr"
        /\ \A n \in DOMAIN j.v[f].v : j.v[f].v[n].t = "num"

\* The Python object a decoded value stands for, when it is cache shaped.
AsCache(j) ==
    [f \in DOMAIN j.v |-> [n \in DOMAIN j.v[f].v |-> j.v[f].v[n].v]]

Mapping(c) == [shape |-> "mapping", cache |-> c]
NotAMapping == [shape |-> "other", cache |-> EmptyDict]
NothingLoaded == Mapping(EmptyDict)

\* What the caller receives, r being the outcome of the loop.
Returned(r) ==
    [exc |-> r.exc,
     val |-> IF r.exc # "none" THEN NothingLoaded
             ELSE IF IsCacheShaped(r.val) THEN Mapping(AsCache(r.val))
             ELSE NotAMapping]

get_cached_reviewed_lines(cs) == Returned(ScanComments(cs, 1))

\* Mutant: the comment is written over the last comment of the PR.
create_issue_comment_EditsLast(thread, body) ==
    IF thread = <<>> THEN <<body>>
    ELSE [thread EXCEPT ![Len(thread)] = body]

\* pr.create_issue_comment(body): the PR's comments afterwards.
create_issue_comment(thread, body) == Append(thread, body)

\* The body post_metadata_comment hands to pr.create_issue_comment.
post_metadata_comment(reviewed_lines_dict) ==
    <<P(SENTINEL), P("\n")>> \o json_dumps(reviewed_lines_dict)
    \o <<P("\n"), P("-->")>>

----------------------------------------------------------------------------
\* Inputs of the pure-function specifications.

Patches == UNION {[1..n -> Chars] : n \in 0..MaxPatchChars}

FileRecords ==
    [filename : Filenames, hasPatch : {TRUE}, patch : Patches, status : Statuses]
    \cup [filename : Filenames, hasPatch : {FALSE}, patch : {<<>>}, status : Statuses]

RECURSIVE SumLen(_)
SumLen(fs) == IF fs = <<>> THEN 0 ELSE Len(Head(fs).patch) + SumLen(Tail(fs))

\* The host lists a PR's files by filename, each once.
FileLists ==
    {<<>>}
    \cup {<<f>> : f \in FileRecords}
    \cup {<<f, g>> : f \in {h \in FileRecords : h.filename = "a.py"},
                     g \in {h \in FileRecords : h.filename = "b.py"}}

PRFileLists == {fs \in FileLists : SumLen(fs) <= MaxPatchChars}

PosLists == UNION {[1..n -> 1..MaxCachePos] : n \in 0..MaxCacheEntries}

RECURSIVE CacheSize(_, _)
CacheSize(c, keys) ==
    IF keys = {} THEN 0
    ELSE LET k == CHOOSE x \in keys : TRUE
         IN Len(c[k]) + CacheSize(c, keys \ {k})

Caches ==
    {c \in UNION {[K -> PosLists] : K \in SUBSET Filenames} :
        CacheSize(c, DOMAIN c) <= MaxCacheEntries}

\* The bot's login and the logins that may be asked for a review.
BOT_USER == "dhp-pr-review-bot"
Logins == {BOT_USER, "octocat"}

NoCalls == [host |-> 0, load |-> 0, review |-> 0, comment |-> 0, llm |-> 0, kb |-> 0]
NoPositions == [f \in Filenames |-> {}]

\* The value of ai_review_json before get_final_review has returned.
NotReturned == [t |-> "unset", v |-> 0]

\* bool(value) of a decoded JSON value.
TruthyValue(j) ==
    IF j.t = "obj" THEN DOMAIN j.v # {}
    ELSE IF j.t = "arr" THEN j.v # <<>>
    ELSE IF j.t = "num" THEN j.v # 0
    ELSE IF j.t = "str" THEN j.v # ""
    ELSE FALSE

\* int(s) on the value of an environment variable; "unset" is None.
int(s) ==
    IF s = "unset" THEN [exc |-> "TypeError", val |-> 0]
    ELSE IF s = "abc" THEN [exc |-> "ValueError", val |-> 0]
    ELSE IF s = "0" THEN [exc |-> "none", val |-> 0]
    ELSE [exc |-> "none", val |-> 7]

\* The job's environment with every variable set and a PR number.
GoodEnviron ==
    [REPO |-> TRUE, GITHUB_TOKEN |-> TRUE, AWS_BEDROCK_KB_ID |-> TRUE,
     OPENAI_API_KEY |-> TRUE, PR_NUMBER |-> "7"]

\* The environments a job may run in: one variable is unset or empty, or the
\* PR number is unset, not a number or not positive.
Environs ==
    {GoodEnviron,
     [GoodEnviron EXCEPT !.REPO = FALSE],
     [GoodEnviron EXCEPT !.GITHUB_TOKEN = FALSE],
     [GoodEnviron EXCEPT !.AWS_BEDROCK_KB_ID = FALSE, !.OPENAI_API_KEY = FALSE],
     [GoodEnviron EXCEPT !.PR_NUMBER = "unset"],
     [GoodEnviron EXCEPT !.PR_NUMBER = "abc"],
     [GoodEnviron EXCEPT !.PR_NUMBER = "0"]}

\* No run has been started: the state of the run variables in the
\* specifications of the single functions.
NoRun ==
    /\ reviewers = {}
    /\ reviews = <<>>
    /\ script = "none"
    /\ pc = "idle"
    /\ exitCode = -1
    /\ outcome = "none"
    /\ calls = NoCalls
    /\ runs = 0
    /\ foreign = FALSE
    /\ everLoaded = NoPositions
    /\ seenAdded = NoPositions
    /\ cleanRuns = 0
    /\ envStage = 0
    /\ environ = GoodEnviron
    /\ fileIdx = 0
    /\ response_text = <<>>
    /\ aiReview = NotReturned

----------------------------------------------------------------------------
\* Specification of generate_review_comments as a function of its inputs:
\* the inputs are drawn in the initial state, the first call is made on them
\* and the second call is made on the same files with the returned cache.

GenInit ==
    /\ NoRun
    /\ issueComments = <<>>
    /\ loaded = NothingLoaded
    /\ raised = "none"
    /\ saved = EmptyDict
    /\ files \in PRFileLists
    /\ cache \in Caches
    /\ comments = <<>>
    /\ new_cache = EmptyDict
    /\ firstComments = <<>>
    /\ phase = "input"

GenCall ==
    /\ phase = "input"
    /\ LET r == generate_review_comments(files, cache) IN
        /\ comments' = r.comments
        /\ new_cache' = r.new_cache
    /\ phase' = "called"
    /\ UNCHANGED <<files, cache, firstComments, loadVars, runVars>>

GenCallAgain ==
    /\ phase = "called"
    /\ LET r == generate_review_comments(files, new_cache) IN
        /\ comments' = r.comments
        /\ new_cache' = r.new_cache
    /\ firstComments' = comments
    /\ cache' = new_cache
    /\ phase' = "recalled"
    /\ UNCHANGED <<files, loadVars, runVars>>

\* The lines a push may put in front of a patch: a context line or an
\* added line.
InsertedLines == {"x", "+"}

\* The file after a push that inserts a line at the top of its patch, so that
\* every line of the patch moves one position down.
InsertLine(file, ins) ==
    IF file.hasPatch /\ file.patch # <<>>
    THEN [file EXCEPT !.patch = <<ins, "\n">> \o @]
    ELSE file

\* The next run's call after such a push: the changed patches, and the cache
\* the first call returned.
GenCallShifted ==
    /\ phase = "called"
    /\ \E ins \in InsertedLines :
        /\ files' = [k \in DOMAIN files |-> InsertLine(files[k], ins)]
        /\ LET r == generate_review_comments(files', new_cache) IN
            /\ comments' = r.comments
            /\ new_cache' = r.new_cache
    /\ firstComments' = comments
    /\ cache' = new_cache
    /\ phase' = "shifted"
    /\ UNCHANGED <<loadVars, runVars>>

GenNext == GenCall \/ GenCallAgain \/ GenCallShifted

SpecGen == GenInit /\ [][GenNext]_vars

----------------------------------------------------------------------------
\* Claims about generate_review_comments (checked under SpecGen).

\* A file the loop does not skip: non-empty patch, status not 'removed'.
Processed(file) ==
    file.hasPatch /\ Len(file.patch) > 0 /\ file.status # "removed"

\* A line that starts with '+' but not with '++'.
PlusNotPlusPlus(line) ==
    /\ Len(line) >= 1
    /\ line[1] = "+"
    /\ (Len(line) >= 2 => line[2] # "+")

\* The comments of a comment list that are on one path, in order.
CommentsOn(cs, filename) == SelectSeq(cs, LAMBDA c : c.path = filename)

\* The 1-based indices of the added lines of a patch that a cache entry
\* does not hold.
UnreviewedAdded(patch, entry) ==
    LET lines == Split(patch, "\n") IN
    {i \in 1..Len(lines) :
        PlusNotPlusPlus(lines[i]) /\ \A j \in DOMAIN entry : entry[j] # i}

\* C1: for every processed file the comments emitted for it are exactly one
\* per added line ('+' but not '++') of patch.split('\n') whose 1-based index
\* is not in cache[filename], each carrying that index as its position.
C1_OneCommentPerUnreviewedAddedLine ==
    phase # "input" =>
        \A k \in DOMAIN files :
            Processed(files[k]) =>
                LET mine == CommentsOn(comments, files[k].filename)
                    want == UnreviewedAdded(files[k].patch,
                                DictGet(cache, files[k].filename, <<>>))
                IN /\ Len(mine) = Cardinality(want)
                   /\ {mine[j].position : j \in DOMAIN mine} = want
                   /\ \A j \in DOMAIN mine : mine[j].body = ReviewBody

\* C1 witness: a.py's added line is its second patch line and is commented at
\* position 2; b.py's added line is at position 1 (the counter restarted) and
\* is not commented because the cache holds 1 for b.py.
C1_Witness ==
    /\ phase = "called"
    /\ Len(files) = 2
    /\ Processed(files[1]) /\ Processed(files[2])
    /\ Split(files[1].patch, "\n") = <<<<>>, <<"+">>>>
    /\ files[2].patch = <<"+">>
    /\ "b.py" \in DOMAIN cache /\ cache["b.py"] = <<1>>
    /\ "a.py" \notin DOMAIN cache
    /\ comments = <<[path |-> "a.py", position |-> 2, body |-> ReviewBody]>>

\* C2: calling generate_review_comments again on the identical file list
\* with the returned cache returns an empty comment list.
C2_SecondCallIsEmpty ==
    phase = "recalled" => comments = <<>>

\* C2 witness: the first call commented two lines, the second call was made.
C2_Witness ==
    /\ phase = "recalled"
    /\ Len(firstComments) = 2
    /\ cache # EmptyDict

\* C5: a file with an empty or absent patch, or with status 'removed',
\* contributes no comment and no key of the returned cache, whatever the
\* input cache holds for it.
C5_SkippedFilesContributeNothing ==
    phase # "input" =>
        \A k \in DOMAIN files :
            ~Processed(files[k]) =>
                /\ CommentsOn(comments, files[k].filename) = <<>>
                /\ files[k].filename \notin DOMAIN new_cache

\* C5 witness: a removed file with an added line and a cache entry, next to
\* a processed file that is commented.
C5_Witness ==
    /\ phase = "called"
    /\ Len(files) = 2
    /\ files[1].status = "removed" /\ files[1].patch = <<"+", "x">>
    /\ "a.py" \in DOMAIN cache /\ cache["a.py"] = <<2>>
    /\ Processed(files[2])
    /\ comments # <<>>

\* C8: every filename that is a key of the input cache and is not processed
\* in this call is a key of the returned cache with the same list.
C8_UntouchedEntriesCarriedForward ==
    phase # "input" =>
        \A f \in DOMAIN cache :
            (\A k \in DOMAIN files :
                files[k].filename = f => ~Processed(files[k]))
            => (f \in DOMAIN new_cache /\ new_cache[f] = cache[f])

----------------------------------------------------------------------------
\* Specification of get_cached_reviewed_lines and post_metadata_comment as
\* functions of the PR's issue comments: the comments are drawn in the
\* initial state; the cache is read, or a cache is saved and then read.

\* Largest number of issue comments on the PR.
MaxComments == 2

\* Caches written into the comment bodies that exist beforehand.
BodyCaches ==
    {EmptyDict,
     [f \in {"a.py"} |-> <<1>>],
     [f \in {"a.py", "b.py"} |-> IF f = "a.py" THEN <<2, 1>> ELSE <<>>]}

\* A sentinel comment whose JSON is not followed by the closing line.
OpenBody(c) == <<P(SENTINEL), P("\n")>> \o json_dumps(c)

PlainBody == <<P("LGTM")>>
BareSentinelBody == <<P(SENTINEL)>>
BadJsonBody == <<P(SENTINEL), P("\n"), P("{")>>
NotDictBody == <<P(SENTINEL), P("\n"), P("["), P("1"), P("]")>>
NoFieldBody == <<P(SENTINEL), P("\n"), P("{"), P("}")>>
NumberFieldBody ==
    <<P(SENTINEL), P("\n"), P("{"), Str("reviewed"), P(":"), P("1"), P("}")>>

Bodies ==
    {PlainBody, BareSentinelBody, BadJsonBody, NotDictBody, NoFieldBody,
     NumberFieldBody}
    \cup {OpenBody(c) : c \in BodyCaches}
    \cup {post_metadata_comment(c) : c \in BodyCaches}

CommentLists == UNION {[1..n -> Bodies] : n \in 0..MaxComments}

LoadInit ==
    /\ NoRun
    /\ issueComments \in CommentLists
    /\ loaded = NothingLoaded
    /\ raised = "none"
    /\ saved = EmptyDict
    /\ files = <<>>
    /\ cache = EmptyDict
    /\ comments = <<>>
    /\ new_cache = EmptyDict
    /\ firstComments = <<>>
    /\ phase = "input"

\* The caller's variables after the call returned or raised r.
Assign(r) ==
    /\ loaded' = r.val
    /\ raised' = r.exc

LoadCall ==
    /\ phase \in {"input", "saved"}
    /\ Assign(get_cached_reviewed_lines(issueComments))
    /\ phase' = IF phase = "input" THEN "loaded" ELSE "reloaded"
    /\ UNCHANGED <<genVars, issueComments, saved, runVars>>

SaveCall ==
    /\ phase = "input"
    /\ Len(issueComments) < MaxComments
    /\ \E c \in Caches :
        /\ issueComments' =
               create_issue_comment(issueComments, post_metadata_comment(c))
        /\ saved' = c
    /\ phase' = "saved"
    /\ UNCHANGED <<genVars, loaded, raised, runVars>>

LoadNext == LoadCall \/ SaveCall

SpecLoad == LoadInit /\ [][LoadNext]_vars

----------------------------------------------------------------------------
\* Claims about the persisted cache (checked under SpecLoad).

IsSentinelComment(body) == Len(body) >= 1 /\ body[1] = P(SENTINEL)

SentinelIndices(cs) == {i \in DOMAIN cs : IsSentinelComment(cs[i])}

\* The text after the first newline of a body is a JSON document.
HasJsonAfterFirstNewline(body) ==
    \E n \in DOMAIN body :
        /\ body[n] = P("\n")
        /\ \A m \in 1..(n - 1) : body[m] # P("\n")
        /\ json_loads(SubSeq(body, n + 1, Len(body))).ok

\* C3: a cache saved by post_metadata_comment on a PR with no other sentinel
\* comment is what get_cached_reviewed_lines then returns.
C3_SaveThenLoadRoundTrip ==
    (phase = "reloaded"
        /\ SentinelIndices(issueComments) = {Len(issueComments)})
    => (raised = "none" /\ loaded = Mapping(saved))

\* C6: no exception escapes get_cached_reviewed_lines, and it returns the
\* empty mapping when no comment starts with the sentinel and when the
\* sentinel comments have no newline or no valid JSON after the first one.
C6_LoadFailsSoft ==
    phase \in {"loaded", "reloaded"} =>
        /\ raised = "none"
        /\ (\A i \in SentinelIndices(issueComments) :
                ~HasJsonAfterFirstNewline(issueComments[i]))
           => loaded = Mapping(EmptyDict)

\* C6 witness: a sentinel comment without a newline and one with malformed
\* JSON have been read.
C6_Witness ==
    /\ phase = "loaded"
    /\ issueComments = <<BareSentinelBody, BadJsonBody>>
    /\ loaded = Mapping(EmptyDict)

\* The cache a decodable sentinel comment holds.
CacheOf(body) ==
    AsCache(json_loads(SubSeq(body, IndexOf(body, P("\n"), 1) + 1,
                              Len(body))).val.v["reviewed"])

\* A sentinel comment that decodes to a mapping with a cache in 'reviewed'.
HoldsCache(body) ==
    /\ IsSentinelComment(body)
    /\ HasJsonAfterFirstNewline(body)
    /\ LET j == json_loads(SubSeq(body, IndexOf(body, P("\n"), 1) + 1,
                                  Len(body))).val
       IN /\ j.t = "obj"
          /\ "reviewed" \in DOMAIN j.v
          /\ IsCacheShaped(j.v["reviewed"])

\* C7: with several sentinel comments, each holding a cache, the cache
\* returned is the one of the most recently created sentinel comment.
C7_LatestSentinelWins ==
    (phase = "loaded"
        /\ Cardinality(SentinelIndices(issueComments)) >= 2
        /\ \A i \in SentinelIndices(issueComments) : HoldsCache(issueComments[i]))
    => LET last == CHOOSE i \in SentinelIndices(issueComments) :
                       \A j \in SentinelIndices(issueComments) : j <= i
       IN loaded = Mapping(CacheOf(issueComments[last]))

----------------------------------------------------------------------------
\* Specification of the PR over its lifetime: runs of pr_review.py, one at a
\* time, and between them the host's side of the PR (a push that changes the
\* files, a comment of another user, a change of the review requests).
\* Between two runs each kind of change happens at most once, in this order,
\* and none after the last run: every state of the PR a run can start from is
\* still reached.

\* Number of patch characters of the PR's file.
MaxRunPatchChars == 2
\* Number of runs started.
MaxRuns == 2
\* Number of issue comments up to which other users add one.
MaxThread == 2

\* The PR of this specification touches one file, which it modifies.
RunPatches == UNION {[1..n -> Chars] : n \in 0..MaxRunPatchChars}

RunFileLists ==
    {<<>>}
    \cup {<<[filename |-> "a.py", hasPatch |-> TRUE, patch |-> p,
             status |-> "modified"]>> : p \in RunPatches}

\* Comments other users post.
RunBodies ==
    {NumberFieldBody, OpenBody(EmptyDict), OpenBody([f \in {"a.py"} |-> <<1>>])}

\* The review requests the PR may carry.
ReviewerSets == {{"octocat"}, {BOT_USER, "octocat"}}

HasSentinel(bodies) ==
    \E i \in DOMAIN bodies : StartsWith(bodies[i], <<P(SENTINEL)>>)

\* The variables of a process that is not running.
NoProcess ==
    /\ cache = EmptyDict
    /\ comments = <<>>
    /\ new_cache = EmptyDict
    /\ loaded = NothingLoaded
    /\ raised = "none"
    /\ script = "none"
    /\ pc = "idle"
    /\ exitCode = -1
    /\ outcome = "none"
    /\ calls = NoCalls
    /\ fileIdx = 0
    /\ response_text = <<>>
    /\ aiReview = NotReturned

Init ==
    /\ files \in RunFileLists
    /\ issueComments \in {<<>>} \cup {<<b>> : b \in RunBodies}
    /\ foreign = HasSentinel(issueComments)
    /\ reviewers \in ReviewerSets
    /\ reviews = <<>>
    /\ NoProcess
    /\ firstComments = <<>>
    /\ saved = EmptyDict
    /\ runs = 0
    /\ everLoaded = NoPositions
    /\ seenAdded = NoPositions
    /\ cleanRuns = 0
    /\ envStage = 0
    /\ environ = GoodEnviron
    /\ phase = "run"

\* A push changes the PR's files.
EnvPush ==
    /\ pc = "idle"
    /\ runs < MaxRuns
    /\ envStage < 1
    /\ envStage' = 1
    /\ files' \in RunFileLists \ {files}
    /\ cleanRuns' = 0
    /\ UNCHANGED <<botVars, cache, comments, new_cache, firstComments, loadVars, phase,
                   reviewers, reviews, script, pc, exitCode, outcome, calls,
                   runs, foreign, everLoaded, seenAdded>>

\* Another user comments on the PR.
EnvPostComment ==
    /\ pc = "idle"
    /\ runs < MaxRuns
    /\ envStage < 2
    /\ envStage' = 2
    /\ Len(issueComments) < MaxThread
    /\ \E b \in RunBodies :
        /\ issueComments' = Append(issueComments, b)
        /\ foreign' = (foreign \/ StartsWith(b, <<P(SENTINEL)>>))
    /\ UNCHANGED <<botVars, genVars, loaded, raised, saved, phase, reviewers, reviews,
                   script, pc, exitCode, outcome, calls, runs, everLoaded, seenAdded,
                   cleanRuns>>

\* Reviews are requested or the requests are withdrawn.
EnvSetReviewers ==
    /\ pc = "idle"
    /\ runs < MaxRuns
    /\ envStage < 3
    /\ envStage' = 3
    /\ reviewers' \in ReviewerSets \ {reviewers}
    /\ UNCHANGED <<botVars, genVars, loadVars, phase, reviews, script, pc, exitCode,
                   outcome, calls, runs, foreign, everLoaded, seenAdded, cleanRuns>>

\* The process ends: exit(code), the end of the script (code 0) or an
\* uncaught exception (code 1).
Exit(code, how) ==
    /\ pc' = "exited"
    /\ exitCode' = code
    /\ outcome' = how

\* The job is torn down: the variables of the process are gone.
Reap ==
    /\ pc = "exited"
    /\ cache' = EmptyDict
    /\ comments' = <<>>
    /\ new_cache' = EmptyDict
    /\ loaded' = NothingLoaded
    /\ raised' = "none"
    /\ script' = "none"
    /\ pc' = "idle"
    /\ exitCode' = -1
    /\ outcome' = "none"
    /\ calls' = NoCalls
    /\ fileIdx' = 0
    /\ response_text' = <<>>
    /\ aiReview' = NotReturned
    /\ UNCHANGED <<environ, files, firstComments, issueComments, saved, phase, reviewers,
                   reviews, runs, foreign, everLoaded, seenAdded, cleanRuns, envStage>>

HostCalls(n) == [calls EXCEPT !.host = @ + n]

\* The CI event starts pr_review.py.
StartRun ==
    /\ pc = "idle"
    /\ runs < MaxRuns
    /\ runs' = runs + 1
    /\ script' = "pr_review.py"
    /\ pc' = "connect"
    /\ envStage' = 0
    /\ UNCHANGED <<botVars, genVars, loadVars, phase, reviewers, reviews, exitCode,
                   outcome, calls, foreign, everLoaded, seenAdded, cleanRuns>>

\* Mutant: the review is posted whatever the comment list holds.
Truthy_Always(cs) == TRUE

\* if comments: a list is true when it is not empty.
Truthy(cs) == cs # <<>>

\* A host call of pr_review.py raises: nothing catches it.
HostError ==
    /\ script = "pr_review.py"
    /\ \/ pc \in {"connect", "gate", "load", "generate", "save"}
       \/ (pc = "review" /\ Truthy(comments))
    /\ calls' = HostCalls(1)
    /\ Exit(1, "error")
    /\ cleanRuns' = 0
    /\ UNCHANGED <<botVars, genVars, loadVars, phase, reviewers, reviews, script, runs,
                   foreign, everLoaded, seenAdded, envStage>>

\* PR_NUMBER = int(os.getenv("PR_NUMBER")), then g.get_repo(REPO) and
\* repo.get_pull(PR_NUMBER)
Connect ==
    /\ script = "pr_review.py"
    /\ pc = "connect"
    /\ IF int(environ.PR_NUMBER).exc # "none"
       THEN Exit(1, "error") /\ cleanRuns' = 0 /\ UNCHANGED calls
       ELSE /\ calls' = HostCalls(2)
            /\ pc' = "gate"
            /\ UNCHANGED <<exitCode, outcome, cleanRuns>>
    /\ UNCHANGED <<botVars, genVars, loadVars, phase, reviewers, reviews, script,
                   runs, foreign, everLoaded, seenAdded, envStage>>

\* Mutant: the test of the gate is inverted.
NotRequested_Inverted(logins) == BOT_USER \in logins

\* BOT_USER not in reviewers
NotRequested(logins) == BOT_USER \notin logins

\* pr.get_review_requests()[0], and exit(0) when the bot is not among them.
Gate ==
    /\ script = "pr_review.py"
    /\ pc = "gate"
    /\ calls' = HostCalls(1)
    /\ IF NotRequested(reviewers)
       THEN Exit(0, "not_requested")
       ELSE pc' = "load" /\ UNCHANGED <<exitCode, outcome>>
    /\ UNCHANGED <<botVars, genVars, loadVars, phase, reviewers, reviews, script, runs,
                   foreign, everLoaded, seenAdded, cleanRuns, envStage>>

\* The positions a loaded cache holds for a filename.
LoadedPositions(l, f) ==
    IF l.shape = "mapping" THEN ToSet(DictGet(l.cache, f, <<>>)) ELSE {}

\* reviewed_cache = get_cached_reviewed_lines(pr)
Loaded(r) ==
    /\ Assign(r)
    /\ everLoaded' =
           [f \in Filenames |-> everLoaded[f] \cup LoadedPositions(r.val, f)]
    /\ IF r.exc = "none"
       THEN pc' = "generate" /\ UNCHANGED <<exitCode, outcome, cleanRuns>>
       ELSE Exit(1, "error") /\ cleanRuns' = 0

Load ==
    /\ script = "pr_review.py"
    /\ pc = "load"
    /\ Loaded(get_cached_reviewed_lines(issueComments))
    /\ calls' = [calls EXCEPT !.host = @ + 1, !.load = @ + 1]
    /\ UNCHANGED <<botVars, genVars, issueComments, saved, phase, reviewers, reviews,
                   script, runs, foreign, seenAdded, envStage>>

\* The positions of the added lines in the patches of the processed files of
\* one name.
AddedPositions(fs, f) ==
    UNION {UnreviewedAdded(fs[k].patch, <<>>) :
              k \in {n \in DOMAIN fs : fs[n].filename = f /\ Processed(fs[n])}}

\* cache.get(...) raises AttributeError when the loaded value is no mapping
\* and some file is processed.
CacheTypeError(fs, l) ==
    l.shape # "mapping" /\ \E k \in DOMAIN fs : ~IsSkipped(fs[k])

\* comments, new_cache = generate_review_comments(pr, reviewed_cache)
Generate ==
    /\ script = "pr_review.py"
    /\ pc = "generate"
    /\ calls' = HostCalls(1)
    /\ cache' = loaded.cache
    /\ seenAdded' =
           [f \in Filenames |-> seenAdded[f] \cup AddedPositions(files, f)]
    /\ IF CacheTypeError(files, loaded)
       THEN /\ Exit(1, "error")
            /\ cleanRuns' = 0
            /\ UNCHANGED <<comments, new_cache>>
       ELSE /\ LET r == generate_review_comments(files, loaded.cache) IN
                /\ comments' = r.comments
                /\ new_cache' = r.new_cache
            /\ pc' = "review"
            /\ UNCHANGED <<exitCode, outcome, cleanRuns>>
    /\ UNCHANGED <<botVars, files, firstComments, loadVars, phase, reviewers, reviews,
                   script, runs, foreign, everLoaded, envStage>>

\* if comments: pr.create_review(...)   else: print("No new comments to post.")
Review ==
    /\ script = "pr_review.py"
    /\ pc = "review"
    /\ IF Truthy(comments)
       THEN /\ reviews' = Append(reviews, comments)
            /\ calls' = [calls EXCEPT !.host = @ + 1, !.review = @ + 1]
            /\ pc' = "save"
            /\ UNCHANGED <<exitCode, outcome, cleanRuns>>
       ELSE /\ Exit(0, "no_comments")
            /\ cleanRuns' = cleanRuns + 1
            /\ UNCHANGED <<reviews, calls>>
    /\ UNCHANGED <<botVars, genVars, loadVars, phase, reviewers, script, runs, foreign,
                   everLoaded, seenAdded, envStage>>

\* post_metadata_comment(pr, new_cache), then the script ends.
Save ==
    /\ script = "pr_review.py"
    /\ pc = "save"
    /\ issueComments' =
           create_issue_comment(issueComments, post_metadata_comment(new_cache))
    /\ saved' = new_cache
    /\ calls' = [calls EXCEPT !.host = @ + 1, !.comment = @ + 1]
    /\ Exit(0, "reviewed")
    /\ cleanRuns' = cleanRuns + 1
    /\ UNCHANGED <<botVars, genVars, loaded, raised, phase, reviewers, reviews, script,
                   runs, foreign, everLoaded, seenAdded, envStage>>

Env == EnvPush \/ EnvPostComment \/ EnvSetReviewers \/ Reap

Run == StartRun \/ HostError \/ Connect \/ Gate \/ Load \/ Generate \/ Review \/ Save

Next == Env \/ Run

Spec == Init /\ [][Next]_vars

----------------------------------------------------------------------------
\* Specification of one job after the other on a PR that does not change, the
\* job running any of the three entry scripts: pr_review.py and the two
\* variants of pr_review_bot.py, which hand the patches to a language model.

BotScripts == {"pr_review_bot.py", ".github/src/pr_review_bot.py"}

\* What the model's last answer is to get_final_review.
\* The fence of a code block (three backquotes) and the one that opens a
\* JSON block (three backquotes and the word json), which ends with a fence.
FENCE == P("<fence>")
OPEN_FENCE == P("<fence>json")

ReviewObject == <<P("{"), Str("pr_summary"), P(":"), Str("ok"), P("}")>>

\* Answers of the model: the review as a JSON object, bare, in a json
\* fence with text around it, in a fence that is not closed and in a fence
\* without the word json; JSON that is no object; text that is no JSON.
LLMReplies ==
    {ReviewObject,
     <<P("Here is the review:"), P("\n"), OPEN_FENCE, P("\n")>>
         \o ReviewObject \o <<P("\n"), FENCE, P("\n"), P("Done.")>>,
     <<OPEN_FENCE, P("\n")>> \o ReviewObject,
     <<FENCE, P("\n")>> \o ReviewObject \o <<P("\n"), FENCE>>,
     <<P("{"), P("}")>>,
     <<P("["), P("1"), P("]")>>,
     <<P("["), P("]")>>,
     <<P("null")>>,
     <<Str("LGTM")>>,
     <<P("LGTM")>>,
     <<>>}

\* The PR's files: those of the lifetime specification and a file without
\* patch.
BotFileLists ==
    RunFileLists
    \cup {<<[filename |-> "a.py", hasPatch |-> FALSE, patch |-> <<>>,
             status |-> "modified"]>>}

BotInit ==
    /\ files \in BotFileLists
    /\ issueComments \in {<<>>} \cup {<<b>> : b \in RunBodies}
    /\ foreign = HasSentinel(issueComments)
    /\ reviewers \in ReviewerSets
    /\ reviews = <<>>
    /\ NoProcess
    /\ firstComments = <<>>
    /\ saved = EmptyDict
    /\ runs = 0
    /\ everLoaded = NoPositions
    /\ seenAdded = NoPositions
    /\ cleanRuns = 0
    /\ envStage = 0
    /\ environ \in Environs
    /\ phase = "run"

\* The CI event starts one of the variants of pr_review_bot.py.
StartBot ==
    /\ pc = "idle"
    /\ runs < MaxRuns
    /\ runs' = runs + 1
    /\ script' \in BotScripts
    /\ pc' = "config"
    /\ envStage' = 0
    /\ UNCHANGED <<botVars, genVars, loadVars, phase, reviewers, reviews,
                   exitCode, outcome, calls, foreign, everLoaded, seenAdded, cleanRuns>>

\* The variable that holds the key of the language model's provider.
ProviderKey(s) ==
    IF s = "pr_review_bot.py" THEN environ.AWS_BEDROCK_KB_ID
    ELSE environ.OPENAI_API_KEY

\* The environment is read and validated: int() may raise, and exit(1) on a
\* missing variable or a PR number that is not positive.
ReadConfig ==
    /\ script \in BotScripts
    /\ pc = "config"
    /\ IF int(environ.PR_NUMBER).exc # "none"
       THEN Exit(1, "error")
       ELSE IF ~(environ.REPO /\ environ.GITHUB_TOKEN /\ ProviderKey(script))
       THEN Exit(1, "config_error")
       ELSE IF int(environ.PR_NUMBER).val <= 0
       THEN Exit(1, "config_error")
       ELSE pc' = "github" /\ UNCHANGED <<exitCode, outcome>>
    /\ UNCHANGED <<botVars, genVars, loadVars, phase, reviewers, reviews, script,
                   calls, runs, foreign, everLoaded, seenAdded, cleanRuns, envStage>>

\* A host call of pr_review_bot.py raises: exit(1) in the except clause of
\* the initialisation, the uncaught exception elsewhere.
BotHostError ==
    /\ script \in BotScripts
    /\ \/ pc \in {"github", "gate", "files"}
       \/ (pc = "post" /\ TruthyValue(aiReview))
    /\ calls' = HostCalls(1)
    /\ Exit(1, "error")
    /\ UNCHANGED <<botVars, genVars, loadVars, phase, reviewers, reviews, script,
                   runs, foreign, everLoaded, seenAdded, cleanRuns, envStage>>

\* github_utils = GitHubUtils(...); pr = github_utils.get_pr_details()
InitGitHub ==
    /\ script \in BotScripts
    /\ pc = "github"
    /\ calls' = HostCalls(2)
    /\ pc' = "gate"
    /\ UNCHANGED <<botVars, genVars, loadVars, phase, reviewers, reviews, script,
                   exitCode, outcome, runs, foreign, everLoaded, seenAdded, cleanRuns,
                   envStage>>

\* github_utils.is_bot_requested_reviewer(bot_user): the bot's identity
\* appears among the identities getReviewRequests(pr) returns.
is_bot_requested_reviewer(bot_user, logins) == bot_user \in logins

\* if not github_utils.is_bot_requested_reviewer(BOT_USER): exit(0)
BotGate ==
    /\ script \in BotScripts
    /\ pc = "gate"
    /\ calls' = HostCalls(1)
    /\ IF ~is_bot_requested_reviewer(BOT_USER, reviewers)
       THEN Exit(0, "not_requested")
       ELSE /\ pc' = IF script = "pr_review_bot.py" THEN "genai" ELSE "kb"
            /\ UNCHANGED <<exitCode, outcome>>
    /\ UNCHANGED <<botVars, genVars, loadVars, phase, reviewers, reviews, script,
                   runs, foreign, everLoaded, seenAdded, cleanRuns, envStage>>

\* knowledge_base = KnowledgeBaseUtils(...): the constructor builds or loads
\* the index and lets no exception out.
InitKnowledgeBase ==
    /\ script = ".github/src/pr_review_bot.py"
    /\ pc = "kb"
    /\ calls' = [calls EXCEPT !.kb = @ + 1]
    /\ pc' = "genai"
    /\ UNCHANGED <<botVars, genVars, loadVars, phase, reviewers, reviews, script,
                   exitCode, outcome, runs, foreign, everLoaded, seenAdded, cleanRuns,
                   envStage>>

\* The keyword arguments of the variant's call GenAIUtils(...).
CallKeywords(s) ==
    IF s = "pr_review_bot.py" THEN {"knowledge_base_id", "region_name"}
    ELSE {"knowledge_base", "openai_api_key"}

\* The parameters of the constructor of the variant's genai_utils, and those
\* of them that have no default value.
Parameters(s) ==
    IF s = "pr_review_bot.py" THEN {"knowledge_base_id", "region_name"}
    ELSE {"samples_dir", "openai_api_key", "model_name"}

Required(s) ==
    IF s = "pr_review_bot.py" THEN {"knowledge_base_id"}
    ELSE {"samples_dir", "openai_api_key", "model_name"}

\* Python binds the arguments of a call before the body runs: every keyword
\* names a parameter and every parameter without default is given, a
\* TypeError otherwise.
ConstructorAccepts(s) ==
    /\ CallKeywords(s) \subseteq Parameters(s)
    /\ Required(s) \subseteq CallKeywords(s)

\* genai_reviewer = GenAIUtils(...): exit(1) on any exception, the TypeError
\* of a call the constructor does not accept (raised before the body of the
\* constructor runs) or a failure of the provider's client in the body.
InitGenAI ==
    /\ script \in BotScripts
    /\ pc = "genai"
    /\ IF ~ConstructorAccepts(script)
       THEN Exit(1, "type_error")
       ELSE \/ Exit(1, "error")
            \/ /\ pc' = "files"
               /\ UNCHANGED <<exitCode, outcome>>
    /\ UNCHANGED <<botVars, genVars, loadVars, phase, reviewers, reviews, script,
                   calls, runs, foreign, everLoaded, seenAdded, cleanRuns, envStage>>

\* pr_files = github_utils.get_pr_files(), exit(0) when there is none.
GetFiles ==
    /\ script \in BotScripts
    /\ pc = "files"
    /\ calls' = HostCalls(1)
    /\ IF files = <<>>
       THEN Exit(0, "no_files")
       ELSE pc' = "chunks" /\ UNCHANGED <<exitCode, outcome>>
    /\ UNCHANGED <<botVars, genVars, loadVars, phase, reviewers, reviews, script,
                   runs, foreign, everLoaded, seenAdded, cleanRuns, envStage>>

\* not file.patch
NoPatch(file) == ~file.hasPatch \/ file.patch = <<>>

\* The calls of process_pr_chunk: the knowledge base is asked for context in
\* the variant that has one, then the model is invoked.
ChunkCalls(s) ==
    [calls EXCEPT !.llm = @ + 1,
                  !.kb = @ + (IF s = "pr_review_bot.py" THEN 0 ELSE 1)]

\* One round of the loop over pr_files: the file is skipped or its patch is
\* sent to the model, whose invocation may raise.
ProcessChunk ==
    /\ script \in BotScripts
    /\ pc = "chunks"
    /\ fileIdx < Len(files)
    /\ IF NoPatch(files[fileIdx + 1])
       THEN /\ fileIdx' = fileIdx + 1
            /\ UNCHANGED <<pc, exitCode, outcome, calls>>
       ELSE /\ calls' = ChunkCalls(script)
            /\ \/ fileIdx' = fileIdx + 1 /\ UNCHANGED <<pc, exitCode, outcome>>
               \/ Exit(1, "error") /\ UNCHANGED fileIdx
    /\ UNCHANGED <<environ, response_text, aiReview, genVars, loadVars, phase,
                   reviewers,
                   reviews, script, runs, foreign, everLoaded, seenAdded, cleanRuns,
                   envStage>>

\* response_text.find(OPEN_FENCE): the index of the opening fence, 0 for -1.
FindFence(ts) == IndexOf(ts, OPEN_FENCE, 1)

\* response_text.rfind(FENCE): the index of the last fence, which the opening
\* fence is too, 0 for -1.
RFindFence(ts) ==
    IF \E i \in DOMAIN ts : ts[i] \in {FENCE, OPEN_FENCE}
    THEN CHOOSE i \in DOMAIN ts :
            /\ ts[i] \in {FENCE, OPEN_FENCE}
            /\ \A j \in DOMAIN ts : ts[j] \in {FENCE, OPEN_FENCE} => j <= i
    ELSE 0

RECURSIVE strip(_)
\* str.strip()
strip(ts) ==
    IF ts = <<>> THEN ts
    ELSE IF IsWs(ts[1]) THEN strip(Tail(ts))
    ELSE IF IsWs(ts[Len(ts)]) THEN strip(SubSeq(ts, 1, Len(ts) - 1))
    ELSE ts

\* The text handed to json.loads: what stands between the fences when there
\* are an opening and a later fence, the whole answer otherwise.
JsonString(ts, json_start, json_end) ==
    IF json_start # 0 /\ json_end # 0 /\ json_end > json_start
    THEN strip(SubSeq(ts, json_start + 1, json_end - 1))
    ELSE strip(ts)

\* The dictionary returned from the except clauses.
FallbackDict(s) ==
    IF s = "pr_review_bot.py"
    THEN JObj([k \in {"pr_summary", "improvement_suggestions", "code_issues",
                      "security_vulnerabilities", "overall_review_comments"} |->
                 IF k = "pr_summary"
                 THEN JStr("Error: Could not parse AI review. Please check logs.")
                 ELSE IF k = "overall_review_comments"
                 THEN JStr("Failed to parse AI response")
                 ELSE JArr(<<>>)])
    ELSE JObj([k \in {"pr_summary", "overall_review_comments", "file_reviews",
                      "line_comments"} |->
                 IF k = "pr_summary"
                 THEN JStr("Error: Could not parse AI review. Please check logs.")
                 ELSE IF k = "overall_review_comments"
                 THEN JStr("Failed to parse AI response")
                 ELSE JArr(<<>>)])

\* return review_json, or the fallback when json.loads raised.
ReviewJson(s, r) == IF r.ok THEN r.val ELSE FallbackDict(s)

\* What get_final_review returns on the model's answer.
get_final_review(s, ts) ==
    ReviewJson(s, json_loads(JsonString(ts, FindFence(ts), RFindFence(ts))))

\* ai_review_json = genai_reviewer.get_final_review(): the invocation of
\* the model may raise.
FinalReview ==
    /\ script \in BotScripts
    /\ pc = "chunks"
    /\ fileIdx = Len(files)
    /\ calls' = [calls EXCEPT !.llm = @ + 1]
    /\ \/ Exit(1, "error") /\ UNCHANGED <<response_text, aiReview>>
       \/ /\ response_text' \in LLMReplies
          /\ aiReview' = get_final_review(script, response_text')
          /\ pc' = "post"
          /\ UNCHANGED <<exitCode, outcome>>
    /\ UNCHANGED <<environ, fileIdx, genVars, loadVars, phase, reviewers,
                   reviews, script, runs, foreign, everLoaded, seenAdded,
                   cleanRuns, envStage>>

\* github_utils.post_pr_review_comments(review): a review is created on the
\* PR.
post_pr_review_comments(rs, review) ==
    Append(rs, <<[path |-> "", position |-> 0, body |-> review]>>)

\* if ai_review_json: github_utils.post_pr_review_comments(ai_review_json)
Post ==
    /\ script \in BotScripts
    /\ pc = "post"
    /\ IF TruthyValue(aiReview)
       THEN /\ reviews' = post_pr_review_comments(reviews, aiReview)
            /\ calls' = [calls EXCEPT !.host = @ + 1, !.review = @ + 1]
            /\ Exit(0, "reviewed")
       ELSE /\ Exit(0, "no_review")
            /\ UNCHANGED <<reviews, calls>>
    /\ UNCHANGED <<botVars, genVars, loadVars, phase, reviewers, script, runs,
                   foreign, everLoaded, seenAdded, cleanRuns, envStage>>

Bot ==
    \/ StartBot \/ ReadConfig \/ BotHostError \/ InitGitHub \/ BotGate
    \/ InitKnowledgeBase \/ InitGenAI \/ GetFiles \/ ProcessChunk
    \/ FinalReview \/ Post

BotNext == Run \/ Bot \/ Reap

SpecBot == BotInit /\ [][BotNext]_vars

----------------------------------------------------------------------------
\* Claims on the lifetime of the PR

\* The (path, position) pairs of one review.
ReviewedPairs(rv) == {<<rv[k].path, rv[k].position>> : k \in DOMAIN rv}

\* A run that completed, after an earlier one that completed, the bot
\* requested in both, no host error in either and no push in between; no
\* other user has posted a comment that carries the sentinel.
SecondCleanRunEnded == pc = "exited" /\ cleanRuns >= 2 /\ ~foreign

\* C4: when pr_review.py has completed twice on the same PR (bot requested
\* both times, no host error, files unchanged in between), the second run has
\* loaded the cache the first run saved, has generated no comment and created
\* no review, and no (path, position) pair is commented in two reviews.
C4_SecondRunPostsNothing ==
    SecondCleanRunEnded =>
        /\ loaded = Mapping(saved)
        /\ comments = <<>>
        /\ outcome = "no_comments"
        /\ calls.review = 0
        /\ \A i, j \in DOMAIN reviews :
               i # j => ReviewedPairs(reviews[i]) \cap ReviewedPairs(reviews[j]) = {}

\* A run has loaded its cache.
CacheLoaded == script = "pr_review.py" /\ calls.load = 1 /\ raised = "none"

\* C9: for every filename the positions in the cache a run of pr_review.py
\* has loaded contain the positions in the cache every earlier run on the
\* same PR loaded, whatever pushes happened in between.
C9_LoadedCacheNeverShrinks ==
    CacheLoaded =>
        \A f \in Filenames : everLoaded[f] \subseteq LoadedPositions(loaded, f)

\* C9 witness: the second run, after a push, has loaded a cache that holds a
\* position, read from a comment that stands behind the one the first run
\* posted.
C9_Witness ==
    /\ CacheLoaded
    /\ runs = 2
    /\ envStage = 0
    /\ Len(reviews) = 1
    /\ Len(issueComments) = 2
    /\ LoadedPositions(loaded, "a.py") = {1}
    /\ files # <<>>
    /\ files[1].patch = <<"x">>

\* The run made no call that has an effect on the PR or reaches the cache,
\* the language model or the knowledge base.
NoEffect ==
    /\ calls.review = 0
    /\ calls.comment = 0
    /\ calls.load = 0
    /\ calls.llm = 0
    /\ calls.kb = 0

\* C10: a run of any of the three scripts on a PR whose requested reviewers
\* do not include the bot creates no review, posts no issue comment, loads
\* no cache and calls neither the language model nor the knowledge base; it
\* ends at the reviewer gate with exit code 0, unless the configuration or a
\* host call failed before the gate let it end there.
C10_GateStopsTheRun ==
    (pc # "idle" /\ BOT_USER \notin reviewers) =>
        /\ NoEffect
        /\ pc \in {"connect", "config", "github", "gate", "exited"}
        /\ pc = "exited" =>
              \/ outcome = "not_requested" /\ exitCode = 0
              \/ outcome \in {"error", "config_error"} /\ exitCode = 1

\* C10 witness: the Bedrock variant has ended at the gate on a PR that has a
\* file with an added line and that carries a sentinel comment.
C10_Witness ==
    /\ script = "pr_review_bot.py"
    /\ pc = "exited"
    /\ outcome = "not_requested"
    /\ exitCode = 0
    /\ BOT_USER \notin reviewers
    /\ files # <<>>
    /\ files[1].patch = <<"+">>
    /\ issueComments # <<>>

----------------------------------------------------------------------------
\* Claims on the configuration of a job

\* A required identifier of the script is unset or empty, or the PR number
\* is unset, not a number or not positive.
ConfigInvalid ==
    \/ ~environ.REPO
    \/ ~environ.GITHUB_TOKEN
    \/ (script \in BotScripts /\ ~ProviderKey(script))
    \/ int(environ.PR_NUMBER).exc # "none"
    \/ int(environ.PR_NUMBER).val <= 0

\* C11: in each of the three entry scripts a run whose configuration is
\* missing or invalid makes no call to the host, the language model or the
\* knowledge base, and ends with exit code 1.
C11_ConfigErrorBeforeAnyCall ==
    (pc # "idle" /\ ConfigInvalid) =>
        /\ calls.host = 0
        /\ calls.llm = 0
        /\ calls.kb = 0
        /\ pc = "exited" => exitCode = 1

----------------------------------------------------------------------------
\* Claims on the PR's comments and reviews over its lifetime

\* The sequence s is the beginning of the sequence t.
IsPrefix(s, t) == Len(s) <= Len(t) /\ SubSeq(t, 1, Len(s)) = s

\* The step is a call of post_metadata_comment.
SaveStep == calls'.comment = calls.comment + 1

\* C12: every step leaves the comments the PR has in place and unchanged,
\* so sentinel comments are never removed or rewritten, and a call of
\* post_metadata_comment adds exactly one comment, which starts with the
\* sentinel.
C12_SaveOnlyAppends ==
    [][/\ IsPrefix(issueComments, issueComments')
       /\ SaveStep =>
            /\ Len(issueComments') = Len(issueComments) + 1
            /\ StartsWith(issueComments'[Len(issueComments')], <<P(SENTINEL)>>)]_vars

\* C12 witness: a run has saved its cache on a PR that had a sentinel comment
\* before.
C12_Witness ==
    /\ script = "pr_review.py"
    /\ pc = "exited"
    /\ outcome = "reviewed"
    /\ calls.comment = 1
    /\ Len(issueComments) = 2
    /\ issueComments[1] = OpenBody(EmptyDict)
    /\ issueComments[2] = post_metadata_comment(saved)

\* The cache a comment posted by post_metadata_comment holds: the JSON text
\* between the sentinel line and the closing line, decoded.
ReviewedOf(meta) == AsCache(meta.val.v["reviewed"])
PersistedCache(body) == ReviewedOf(json_loads(SubSeq(body, 3, Len(body) - 2)))

\* Every position of the cache c is one of an added line some run has seen in
\* a patch of the file.
ValidCache(c) == \A f \in DOMAIN c : ToSet(c[f]) \subseteq seenAdded[f]

\* C13: on a PR whose sentinel comments are all the bot's, every position a
\* persisted cache stores for a filename is the position of an added line
\* ('+' but not '++') in a patch of that file that some run has seen.
C13_PersistedPositionsAreAddedLines ==
    ~foreign =>
        /\ ValidCache(saved)
        /\ \A i \in DOMAIN issueComments : ValidCache(PersistedCache(issueComments[i]))

\* C13 witness: two runs have persisted a cache each, the second after a push
\* that moved the added line from position 1 to position 2.
C13_Witness ==
    /\ ~foreign
    /\ Len(issueComments) = 2
    /\ PersistedCache(issueComments[1]) = [f \in {"a.py"} |-> <<1>>]
    /\ PersistedCache(issueComments[2]) = [f \in {"a.py"} |-> <<2>>]
    /\ seenAdded["a.py"] = {1, 2}

----------------------------------------------------------------------------
\* Further claims on generate_review_comments

\* The positions of a comment list, in order.
PositionsOf(cs) == [k \in DOMAIN cs |-> cs[k].position]

\* C14 as stated: after the call the entry of every processed file in
\* new_cache is the list cache[filename] as it was handed in (same elements,
\* order and multiplicity), followed by the positions commented in this call.
C14_EntryIsCopyPlusNewPositions ==
    phase = "called" =>
        \A k \in DOMAIN files :
            Processed(files[k]) =>
                new_cache[files[k].filename] =
                    DictGet(cache, files[k].filename, <<>>)
                    \o PositionsOf(CommentsOn(comments, files[k].filename))

\* The positions in a list go up strictly.
Ascending(ps) == \A i, j \in DOMAIN ps : i < j => ps[i] < ps[j]

\* The list e is the elements of the list old, each once, followed by the
\* list new.
DistinctThenNew(e, old, new) ==
    LET n == Cardinality(ToSet(old)) IN
    /\ Len(e) = n + Len(new)
    /\ {e[i] : i \in 1..n} = ToSet(old)
    /\ SubSeq(e, n + 1, Len(e)) = new

\* C14, amended: after the call the entry of every processed file in
\* new_cache is the distinct positions of cache[filename], each once (the
\* list built from the set of them), followed by the positions commented in
\* this call, which ascend.
C14_EntryIsSetCopyPlusNewPositions ==
    phase = "called" =>
        \A k \in DOMAIN files :
            Processed(files[k]) =>
                /\ DistinctThenNew(
                       new_cache[files[k].filename],
                       DictGet(cache, files[k].filename, <<>>),
                       PositionsOf(CommentsOn(comments, files[k].filename)))
                /\ Ascending(PositionsOf(CommentsOn(comments, files[k].filename)))

\* C14 witness: the cache held position 1 twice and the call commented
\* position 2: the entry is [1, 2].
C14_Witness ==
    /\ phase = "called"
    /\ "a.py" \in DOMAIN cache
    /\ cache["a.py"] = <<1, 1>>
    /\ \E k \in DOMAIN files : files[k].filename = "a.py" /\ Processed(files[k])
    /\ PositionsOf(CommentsOn(comments, "a.py")) = <<2>>
    /\ new_cache["a.py"] = <<1, 2>>

----------------------------------------------------------------------------
\* Further claims on get_cached_reviewed_lines

\* The index of the first sentinel comment of a thread that has one.
FirstSentinel(cs) ==
    CHOOSE i \in SentinelIndices(cs) : \A j \in SentinelIndices(cs) : i <= j

\* C15: with several sentinel comments on the PR the result is decided by the
\* first of them alone: its cache when it decodes, the empty mapping when it
\* does not, whatever the later sentinel comments hold.
C15_FirstSentinelAloneDecides ==
    (phase = "loaded" /\ Cardinality(SentinelIndices(issueComments)) >= 2) =>
        LET first == issueComments[FirstSentinel(issueComments)] IN
        /\ HoldsCache(first) => loaded = Mapping(CacheOf(first))
        /\ ~HasJsonAfterFirstNewline(first) => loaded = Mapping(EmptyDict)

----------------------------------------------------------------------------
\* Claims on single runs of pr_review.py

\* The run of pr_review.py has ended on an error nothing recovered from.
EndedOnError == script = "pr_review.py" /\ pc = "exited" /\ outcome = "error"

\* C16: a run of pr_review.py that ends on an unrecovered error has posted no
\* inline review comment on the PR.
C16_ErrorMeansNoReviewPosted ==
    EndedOnError => calls.review = 0

\* The run generated comments and pr.create_review raised.
ReviewFailed == EndedOnError /\ comments # <<>> /\ calls.review = 0

\* C17: the cache comment is saved whether or not posting the review
\* succeeded: a run of pr_review.py whose create_review call failed has posted
\* the sentinel comment that records its positions.
C17_CacheSavedThoughReviewFailed ==
    ReviewFailed =>
        /\ calls.comment = 1
        /\ issueComments # <<>>
        /\ issueComments[Len(issueComments)] = post_metadata_comment(new_cache)

\* What the code does instead: after a failed create_review the run has
\* posted no comment and saved no cache.
NothingSavedAfterFailedReview ==
    ReviewFailed => calls.comment = 0

\* The positions a comment list holds for a path.
PositionSet(cs, filename) ==
    {cs[k].position : k \in {n \in DOMAIN cs : cs[n].path = filename}}

\* C18: after a push that inserts a line at the top of a file's patch, the
\* call made with the cache of the first call comments no added line the
\* first call commented (each is now one position further down) and comments
\* the inserted line when it is an added line.
C18_OnlyNewLinesAfterShift ==
    phase = "shifted" =>
        \A k \in DOMAIN files :
            Processed(files[k]) =>
                /\ \A p \in PositionSet(firstComments, files[k].filename) :
                       p + 1 \notin PositionSet(comments, files[k].filename)
                /\ files[k].patch[1] = "+" =>
                       1 \in PositionSet(comments, files[k].filename)

\* The statements of pr_review.py up to the test of the comment list.
BeforeReview == pc \in {"connect", "gate", "load", "generate"}

\* C19: a run of pr_review.py whose generate_review_comments returned no
\* comment creates no review and posts no issue comment: no step of it, up
\* to and including its last, changes the PR's reviews, comments or persisted
\* cache, and from the test of the empty list it ends with exit code 0.
C19_NoCommentsNoEffect ==
    [][(script = "pr_review.py"
          /\ (BeforeReview \/ (pc = "review" /\ comments = <<>>)))
       => /\ reviews' = reviews
          /\ issueComments' = issueComments
          /\ saved' = saved
          /\ calls'.review = 0
          /\ calls'.comment = 0
          /\ pc = "review" =>
                (pc' = "exited" /\ exitCode' = 0 /\ outcome' = "no_comments")]_vars

\* C19 witness: the run found the only added line in the cache it loaded
\* and ended without a review or a comment of its own.
C19_Witness ==
    /\ script = "pr_review.py"
    /\ pc = "exited"
    /\ outcome = "no_comments"
    /\ exitCode = 0
    /\ files # <<>>
    /\ files[1].patch = <<"+">>
    /\ cache = [f \in {"a.py"} |-> <<1>>]
    /\ reviews = <<>>
    /\ Len(issueComments) = 1
    /\ calls.review = 0
    /\ calls.comment = 0

----------------------------------------------------------------------------
\* Claims on the final review of the language-model variants

\* get_final_review has returned in this run.
FinalReviewReturned == script \in BotScripts /\ aiReview.t # "unset"

\* C20: whatever text the model answers, get_final_review returns a
\* dictionary, the fallback dictionary when the text holds no valid JSON, and
\* main posts a review exactly when the returned value is truthy.
C20_FinalReviewIsADictionary ==
    FinalReviewReturned =>
        /\ aiReview.t = "obj"
        /\ ~json_loads(JsonString(response_text, FindFence(response_text),
                                  RFindFence(response_text))).ok
              => aiReview = FallbackDict(script)
        /\ (pc = "exited" /\ outcome \in {"reviewed", "no_review"}) =>
              (outcome = "reviewed" <=> TruthyValue(aiReview))

----------------------------------------------------------------------------
\* Claims on the run of the OpenAI/FAISS variant

\* The variables the variant requires are set and PR_NUMBER is a positive
\* integer.
ConfigComplete ==
    /\ environ.REPO
    /\ environ.GITHUB_TOKEN
    /\ environ.OPENAI_API_KEY
    /\ int(environ.PR_NUMBER).exc = "none"
    /\ int(environ.PR_NUMBER).val > 0

\* The number of files with a patch among the first n files of the PR.
PatchedAmong(n) == Cardinality({i \in 1..n : ~NoPatch(files[i])})

\* A run of the OpenAI/FAISS variant with a complete configuration and the
\* bot among the requested reviewers has ended, and no call of an external
\* service has failed in it.
OpenAIRunEnded ==
    /\ script = ".github/src/pr_review_bot.py"
    /\ ConfigComplete
    /\ BOT_USER \in reviewers
    /\ pc = "exited"
    /\ outcome # "error"

\* C21: a run of the OpenAI/FAISS variant with a complete configuration, the
\* bot among the requested reviewers and no failure of an external service
\* does not exit at the construction of GenAIUtils: it ends after every file
\* of the PR was gone through in order, each file with a patch sent to
\* process_pr_chunk once, and the final review requested after them (or
\* with exit code 0 on a PR without files).
C21_OpenAIVariantReviewsEveryPatch ==
    OpenAIRunEnded =>
        /\ outcome # "type_error"
        /\ \/ outcome = "no_files" /\ files = <<>> /\ exitCode = 0
           \/ /\ outcome \in {"reviewed", "no_review"}
              /\ fileIdx = Len(files)
              /\ calls.llm = PatchedAmong(Len(files)) + 1
              /\ aiReview.t # "unset"

\* What the variant does instead: past the gate and the knowledge base, every
\* run ends at the construction of GenAIUtils with exit code 1, so that no
\* file is ever asked for, no patch sent and no review requested or posted.
OpenAIVariantEndsAtConstruction ==
    script = ".github/src/pr_review_bot.py" =>
        /\ pc \notin {"files", "chunks", "post"}
        /\ calls.llm = 0
        /\ fileIdx = 0
        /\ aiReview = NotReturned
        /\ (OpenAIRunEnded => outcome = "type_error" /\ exitCode = 1)

====
